---- MODULE Spec2Model ----
(***************************************************************************)
(* Model of src-tauri/src/main.rs: the background polling loop that        *)
(* samples the Wi-Fi network name, the daily upsert into the connections   *)
(* table, and the get_connections read path, sharing one Mutex<Connection>.*)
(*                                                                         *)
(* Text values (dates, times, network names, command output) are sequences *)
(* of one-character strings, so that formatting, splitting, trimming and   *)
(* the byte-wise comparison of SQLite TEXT values are computed as the code *)
(* computes them.                                                          *)
(***************************************************************************)
EXTENDS Integers, Sequences, FiniteSets, TLC

\* ------------------------------------------------------------------ bounds
\* number of sample instants the wall clock can show
NumInstants == 5

\* ------------------------------------------------------------- text values
Digits == <<"0", "1", "2", "3", "4", "5", "6", "7", "8", "9">>

\* byte value of a character of a formatted date or time
ByteOf(c) ==
    CASE c = "-" -> 45
      [] c = ":" -> 58
      [] OTHER -> 47 + (CHOOSE i \in 1..10 : Digits[i] = c)

\* memcmp order of two TEXT values (SQLite BINARY collation): a < b
RECURSIVE TextLess(_, _)
TextLess(a, b) ==
    IF b = <<>> THEN FALSE
    ELSE IF a = <<>> THEN TRUE
    ELSE IF ByteOf(Head(a)) # ByteOf(Head(b)) THEN ByteOf(Head(a)) < ByteOf(Head(b))
    ELSE TextLess(Tail(a), Tail(b))

TextLeq(a, b) == a = b \/ TextLess(a, b)

\* a two-digit field without the zero padding (%-H, %-M)
Pad2NoZero(n) ==
    IF n < 10 THEN <<Digits[n + 1]>>
    ELSE <<Digits[(n \div 10) + 1], Digits[(n % 10) + 1]>>

\* chrono's zero-padded two-digit and four-digit fields (%H %M %m %d, %Y)
Pad2(n) == <<Digits[(n \div 10) + 1], Digits[(n % 10) + 1]>>

Pad4(n) == Pad2(n \div 100) \o Pad2(n % 100)

\* now.format("%Y-%m-%d").to_string()
FormatDate(now) == Pad4(now.year) \o <<"-">> \o Pad2(now.month) \o <<"-">> \o Pad2(now.day)

\* now.format("%H:%M").to_string()
FormatTime(now) == Pad2(now.hour) \o <<":">> \o Pad2(now.minute)

\* ---------------------------------------------------------- the wall clock
\* sample instants: three times of one day, a second and a third day
SampleInstants ==
    << [year |-> 2024, month |-> 12, day |-> 31, hour |-> 8,  minute |-> 7],
       [year |-> 2024, month |-> 12, day |-> 31, hour |-> 16, minute |-> 14],
       [year |-> 2024, month |-> 12, day |-> 31, hour |-> 0,  minute |-> 0],
       [year |-> 2025, month |-> 1,  day |-> 1,  hour |-> 8,  minute |-> 7],
       [year |-> 2024, month |-> 2,  day |-> 29, hour |-> 9,  minute |-> 30],
       [year |-> 2025, month |-> 1,  day |-> 1,  hour |-> 23, minute |-> 59],
       [year |-> 2025, month |-> 10, day |-> 9,  hour |-> 10, minute |-> 0] >>

\* the values Local::now() can return, in any order
Clock == {SampleInstants[i] : i \in 1..NumInstants}

DateTexts == {FormatDate(n) : n \in Clock}

TimeTexts == {FormatTime(n) : n \in Clock}

\* ------------------------------------------------------------ Option values
NoneVal == [some |-> FALSE, val |-> <<>>]

Some(v) == [some |-> TRUE, val |-> v]

\* --------------------------------------------- get_current_wifi_ssid: parsing
\* first index >= from at which ": " starts in s, 0 when there is none
RECURSIVE FindSep(_, _)
FindSep(s, from) ==
    IF from + 1 > Len(s) THEN 0
    ELSE IF s[from] = ":" /\ s[from + 1] = " " THEN from
    ELSE FindSep(s, from + 1)

\* stdout.split(": ").nth(1)
SplitNth1(s) ==
    LET i1 == FindSep(s, 1) IN
    IF i1 = 0 THEN NoneVal
    ELSE LET i2 == FindSep(s, i1 + 2) IN
         Some(SubSeq(s, i1 + 2, IF i2 = 0 THEN Len(s) ELSE i2 - 1))

IsSpace(c) == c \in {" ", "\n", "\t", "\r"}

RECURSIVE TrimStart(_)
TrimStart(s) ==
    IF s # <<>> /\ IsSpace(Head(s)) THEN TrimStart(Tail(s)) ELSE s

RECURSIVE TrimEnd(_)
TrimEnd(s) ==
    IF s # <<>> /\ IsSpace(s[Len(s)]) THEN TrimEnd(SubSeq(s, 1, Len(s) - 1)) ELSE s

\* s.trim().to_string()
Trim(s) == TrimEnd(TrimStart(s))

\* the success branch of get_current_wifi_ssid
ParseSsid(stdout) ==
    LET piece == SplitNth1(stdout) IN
    IF piece.some THEN Some(Trim(piece.val)) ELSE NoneVal

\* ------------------------------------------------- the OS network query
\* names of the networks the device can be associated with
Networks ==
    { <<"e", "d", "u", "r", "o", "a", "m">>,
      <<"E", "d", "u", "r", "o", "a", "m">>,
      <<"h", "o", "m", "e">>,
      <<"e", "d", "u", "r", "o", "a", "m", ":", " ", "x">>,
      <<" ", "e", "d", "u", "r", "o", "a", "m">> }

\* what networksetup prints for an associated network (format of line 140)
AssociatedOutput(name) ==
    <<"C", "u", "r", "r", "e", "n", "t", " ", "W", "i", "-", "F", "i", " ",
      "N", "e", "t", "w", "o", "r", "k">> \o <<":", " ">> \o name \o <<"\n">>

\* what networksetup prints when no network is associated
NotAssociatedOutput ==
    <<"Y", "o", "u", " ", "a", "r", "e", " ", "n", "o", "t", " ", "a", "s", "s",
      "o", "c", "i", "a", "t", "e", "d", " ", "w", "i", "t", "h", " ", "a", "n",
      " ", "A", "i", "r", "P", "o", "r", "t", " ", "n", "e", "t", "w", "o", "r",
      "k", ".", "\n">>

\* let target_ssid = "eduroam";
target_ssid == <<"e", "d", "u", "r", "o", "a", "m">>

\* ------------------------------------------------------ the connections table
\* MIN with the comparison the wrong way round
SqlMinReversed(a, b) == IF TextLess(a, b) THEN b ELSE a

\* INSERT ... ON CONFLICT(date) DO UPDATE SET earliest = MIN(earliest, ?2)
SqlMin(a, b) == IF TextLess(b, a) THEN b ELSE a

\* ... latest = MAX(latest, ?2)
SqlMax(a, b) == IF TextLess(a, b) THEN b ELSE a

\* the statement without ON CONFLICT(date) DO UPDATE and without the key
UpsertAlwaysInserts(rows, date, time) ==
    rows \cup {[date |-> date, earliest |-> time, latest |-> time]}

\* the statement with latest = ?2 in place of latest = MAX(latest, ?2)
UpsertOverwritesLatest(rows, date, time) ==
    IF \E r \in rows : r.date = date
    THEN {IF r.date = date
          THEN [date |-> r.date,
                earliest |-> SqlMin(r.earliest, time),
                latest |-> time]
          ELSE r : r \in rows}
    ELSE rows \cup {[date |-> date, earliest |-> time, latest |-> time]}

\* an update of every row of the table (UPDATE ... without WHERE date = ?1)
UpsertUpdatesAllRows(rows, date, time) ==
    IF \E r \in rows : r.date = date
    THEN {[date |-> r.date,
           earliest |-> SqlMin(r.earliest, time),
           latest |-> SqlMax(r.latest, time)] : r \in rows}
    ELSE rows \cup {[date |-> date, earliest |-> time, latest |-> time]}

\* the whole statement of insert_connection on the rows of the table
Upsert(rows, date, time) ==
    IF \E r \in rows : r.date = date
    THEN {IF r.date = date
          THEN [date |-> r.date,
                earliest |-> SqlMin(r.earliest, time),
                latest |-> SqlMax(r.latest, time)]
          ELSE r : r \in rows}
    ELSE rows \cup {[date |-> date, earliest |-> time, latest |-> time]}

\* the rows of the table a cursor that already yielded `logs` has still to yield
Remaining(rows, logs) == {r \in rows : \A i \in 1..Len(logs) : logs[i] # r}

\* the cursor of ORDER BY date (ascending)
NextRowAscending(rows, logs) ==
    CHOOSE r \in Remaining(rows, logs) :
        \A q \in Remaining(rows, logs) : TextLeq(r.date, q.date)

\* SELECT ... ORDER BY date DESC: the row the cursor yields next
NextRow(rows, logs) ==
    CHOOSE r \in Remaining(rows, logs) :
        \A q \in Remaining(rows, logs) : TextLeq(q.date, r.date)

\* ------------------------------------------------------------------- state
VARIABLES
    connections,   \* rows of the table connections(date, earliest, latest)
    dbLock,        \* AppState.db: "free", held by "sampler" or "ui", or "poisoned"
    samplerPc,     \* position of the background thread
    net,           \* the network the device is associated with at the query
    current_ssid,  \* return value of get_current_wifi_ssid in this tick
    date,          \* insert_connection's date
    time,          \* insert_connection's time
    result,        \* value check_wifi_connection returns in this tick
    again,         \* this tick's statement repeated an already applied pair
    slept,         \* seconds the thread has just slept before the top of the loop
    uiPc,          \* position of the get_connections call
    logs,          \* rows get_connection_log has collected so far
    uiResult,      \* value get_connections returned
    applied,       \* per date, the times of the statements that succeeded
    matched        \* dates on which a matching sample called insert_connection

vars ==
    <<connections, dbLock, samplerPc, net, current_ssid, date, time, result,
      again, slept, uiPc, logs, uiResult, applied, matched>>

tickVars == <<net, current_ssid, date, time, result, again>>

uiVars == <<uiPc, logs, uiResult>>

history == <<applied, matched>>

NoResult == [kind |-> "None", rows |-> <<>>]

\* state of a freshly started process over the table left on disk
Launch ==
    /\ dbLock = "free"
    /\ samplerPc = "loop"
    /\ net = NoneVal
    /\ current_ssid = NoneVal
    /\ date = <<>>
    /\ time = <<>>
    /\ result = "None"
    /\ again = FALSE
    /\ slept = 0
    /\ uiPc = "idle"
    /\ logs = <<>>
    /\ uiResult = NoResult

\* first launch: create_db_connection creates the empty table
Init ==
    /\ connections = {}
    /\ applied = [d \in DateTexts |-> {}]
    /\ matched = {}
    /\ Launch

\* ------------------------------------------------------- background thread
\* Duration::from_secs(30)
SleepSecs == 30

\* loop { let now = Local::now(); println!(...)
LoopTop ==
    /\ samplerPc = "loop"
    /\ samplerPc' = "query"
    /\ slept' = 0
    /\ UNCHANGED <<connections, dbLock, tickVars, uiVars, history>>

\* a panic of the background thread: it ends, poisoning a mutex it holds
ThreadPanics ==
    /\ samplerPc' = "panicked"
    /\ dbLock' = IF dbLock = "sampler" THEN "poisoned" ELSE dbLock

\* Command::new("networksetup")...output().expect(..): the command cannot run
QuerySpawnFails ==
    /\ samplerPc = "query"
    /\ net' \in {NoneVal} \cup {Some(n) : n \in Networks}
    /\ ThreadPanics
    /\ UNCHANGED <<slept, connections, current_ssid, date, time, result, again,
                   uiVars, history>>

\* output.status.success() is false: the else branch returns None
QueryExitNonZero ==
    /\ samplerPc = "query"
    /\ net' \in {NoneVal} \cup {Some(n) : n \in Networks}
    /\ current_ssid' = NoneVal
    /\ samplerPc' = "compare"
    /\ UNCHANGED <<slept, connections, dbLock, date, time, result, again,
                   uiVars, history>>

\* output.status.success(): the name is cut out of stdout
QuerySuccess ==
    /\ samplerPc = "query"
    /\ \E n \in {NoneVal} \cup {Some(n) : n \in Networks} :
          /\ net' = n
          /\ current_ssid' = ParseSsid(IF n.some THEN AssociatedOutput(n.val)
                                       ELSE NotAssociatedOutput)
    /\ samplerPc' = "compare"
    /\ UNCHANGED <<slept, connections, dbLock, date, time, result, again,
                   uiVars, history>>

\* if current_ssid == target_ssid
SsidMatches(ssid) == ssid.some /\ ssid.val = target_ssid

\* check_wifi_connection without the comparison: any associated network inserts
CompareAnyNetwork ==
    /\ samplerPc = "compare"
    /\ IF current_ssid.some
       THEN samplerPc' = "now" /\ result' = result
       ELSE samplerPc' = "report" /\ result' = "Ok"
    /\ UNCHANGED <<slept, connections, dbLock, net, current_ssid, date, time, again,
                   uiVars, history>>

\* check_wifi_connection: if let Some(..) { if matched { return insert } } Ok(())
Compare ==
    /\ samplerPc = "compare"
    /\ IF SsidMatches(current_ssid)
       THEN samplerPc' = "now" /\ result' = result
       ELSE samplerPc' = "report" /\ result' = "Ok"
    /\ UNCHANGED <<slept, connections, dbLock, net, current_ssid, date, time, again,
                   uiVars, history>>

\* insert_connection: let now = Local::now(); date and time are formatted
InsertNow ==
    /\ samplerPc = "now"
    /\ \E now \in Clock :
          /\ date' = FormatDate(now)
          /\ time' = FormatTime(now)
          /\ matched' = IF SsidMatches(current_ssid)
                        THEN matched \cup {FormatDate(now)} ELSE matched
    /\ samplerPc' = "lock"
    /\ UNCHANGED <<slept, connections, dbLock, net, current_ssid, result, again,
                   uiVars, applied>>

\* insert_connection using the connection without waiting for the mutex
InsertLockNoWait ==
    /\ samplerPc = "lock"
    /\ dbLock' = "sampler"
    /\ samplerPc' = "execute"
    /\ UNCHANGED <<slept, connections, tickVars, uiVars, history>>

\* let db = state.db.lock().unwrap();
InsertLock ==
    /\ samplerPc = "lock"
    /\ dbLock \in {"free", "poisoned"}
    /\ IF dbLock = "poisoned"
       THEN ThreadPanics
       ELSE dbLock' = "sampler" /\ samplerPc' = "execute"
    /\ UNCHANGED <<slept, connections, tickVars, uiVars, history>>

\* db.execute(..) returns Ok: the statement is applied
ExecuteOk ==
    /\ samplerPc = "execute"
    /\ connections' = Upsert(connections, date, time)
    /\ result' = "Ok"
    /\ again' = (time \in applied[date])
    /\ applied' = [applied EXCEPT ![date] = @ \cup {time}]
    /\ samplerPc' = "return"
    /\ UNCHANGED <<slept, dbLock, net, current_ssid, date, time, uiVars, matched>>

\* db.execute(..).unwrap(): the error panics while the guard is alive
ExecuteErrUnwraps ==
    /\ samplerPc = "execute"
    /\ ThreadPanics
    /\ UNCHANGED <<slept, connections, tickVars, uiVars, history>>

\* db.execute(..) returns Err: .map_err(|e| e.to_string())
ExecuteErr ==
    /\ samplerPc = "execute"
    /\ result' = "Err"
    /\ samplerPc' = "return"
    /\ UNCHANGED <<slept, connections, dbLock, net, current_ssid, date, time, again,
                   uiVars, history>>

\* insert_connection returning with the guard kept alive (std::mem::forget)
InsertReturnKeepsGuard ==
    /\ samplerPc = "return"
    /\ samplerPc' = "report"
    /\ UNCHANGED <<slept, connections, dbLock, tickVars, uiVars, history>>

\* insert_connection returns: the guard db is dropped
InsertReturn ==
    /\ samplerPc = "return"
    /\ dbLock' = IF dbLock = "sampler" THEN "free" ELSE dbLock
    /\ samplerPc' = "report"
    /\ UNCHANGED <<slept, connections, tickVars, uiVars, history>>

\* check_wifi_connection(..).unwrap() in place of if let Err(e)
ReportUnwraps ==
    /\ samplerPc = "report"
    /\ IF result = "Err"
       THEN ThreadPanics
       ELSE samplerPc' = "sleep" /\ dbLock' = dbLock
    /\ UNCHANGED <<slept, connections, tickVars, uiVars, history>>

\* if let Err(e) = check_wifi_connection(..) { eprintln!(..) }
Report ==
    /\ samplerPc = "report"
    /\ samplerPc' = "sleep"
    /\ UNCHANGED <<slept, connections, dbLock, tickVars, uiVars, history>>

\* thread::sleep(Duration::from_secs(30)); the locals of the tick are gone
Sleep ==
    /\ samplerPc = "sleep"
    /\ samplerPc' = "loop"
    /\ net' = NoneVal
    /\ current_ssid' = NoneVal
    /\ date' = <<>>
    /\ time' = <<>>
    /\ result' = "None"
    /\ again' = FALSE
    /\ slept' = SleepSecs
    /\ UNCHANGED <<connections, dbLock, uiVars, history>>

SamplerNext ==
    \/ LoopTop
    \/ QuerySpawnFails
    \/ QueryExitNonZero
    \/ QuerySuccess
    \/ Compare
    \/ InsertNow
    \/ InsertLock
    \/ ExecuteOk
    \/ ExecuteErr
    \/ InsertReturn
    \/ Report
    \/ Sleep

\* ------------------------------------------------------- get_connections
\* let db = state.db.lock().unwrap();
GetConnectionsLock ==
    /\ uiPc = "idle"
    /\ dbLock \in {"free", "poisoned"}
    /\ IF dbLock = "poisoned"
       THEN uiPc' = "panicked" /\ dbLock' = dbLock
       ELSE uiPc' = "prepare" /\ dbLock' = "ui"
    /\ UNCHANGED <<slept, connections, samplerPc, tickVars, logs, uiResult, history>>

\* db.prepare("SELECT ... ORDER BY date DESC")? succeeds
PrepareOk ==
    /\ uiPc = "prepare"
    /\ uiPc' = "rows"
    /\ logs' = <<>>
    /\ UNCHANGED <<slept, connections, dbLock, samplerPc, tickVars, uiResult, history>>

\* db.prepare(..)? fails: the value to return is Err
PrepareErr ==
    /\ uiPc = "prepare"
    /\ uiResult' = [kind |-> "Err", rows |-> <<>>]
    /\ uiPc' = "drop"
    /\ UNCHANGED <<slept, connections, dbLock, samplerPc, tickVars, logs, history>>

\* logs.collect(): the cursor yields one more row
CollectRow ==
    /\ uiPc = "rows"
    /\ Remaining(connections, logs) # {}
    /\ logs' = Append(logs, NextRow(connections, logs))
    /\ UNCHANGED <<slept, connections, dbLock, samplerPc, tickVars, uiPc, uiResult,
                   history>>

\* the failing rows dropped and the rest returned (filter_map(|r| r.ok()))
CollectErrSwallowed ==
    /\ uiPc = "rows"
    /\ uiResult' = [kind |-> "Ok", rows |-> logs]
    /\ logs' = <<>>
    /\ uiPc' = "drop"
    /\ UNCHANGED <<slept, connections, dbLock, samplerPc, tickVars, history>>

\* logs.collect(): stepping the cursor or reading a column fails
CollectErr ==
    /\ uiPc = "rows"
    /\ uiResult' = [kind |-> "Err", rows |-> <<>>]
    /\ logs' = <<>>
    /\ uiPc' = "drop"
    /\ UNCHANGED <<slept, connections, dbLock, samplerPc, tickVars, history>>

\* logs.collect(): the cursor is exhausted, the value to return is Ok(vec)
CollectDone ==
    /\ uiPc = "rows"
    /\ Remaining(connections, logs) = {}
    /\ uiResult' = [kind |-> "Ok", rows |-> logs]
    /\ logs' = <<>>
    /\ uiPc' = "drop"
    /\ UNCHANGED <<slept, connections, dbLock, samplerPc, tickVars, history>>

\* get_connection_log returns: the guard db is dropped, and get_connections
\* hands the value (.map_err(|e| e.to_string())) to its caller
GetConnectionsReturn ==
    /\ uiPc = "drop"
    /\ dbLock' = IF dbLock = "ui" THEN "free" ELSE dbLock
    /\ uiResult' = NoResult
    /\ uiPc' = "idle"
    /\ UNCHANGED <<slept, connections, samplerPc, tickVars, logs, history>>

UiNext ==
    \/ GetConnectionsLock
    \/ PrepareOk
    \/ PrepareErr
    \/ CollectRow
    \/ CollectErr
    \/ CollectDone
    \/ GetConnectionsReturn

\* ------------------------------------------------------------ the process
\* "quit" => std::process::exit(0), and a later launch over the same file
Relaunch ==
    /\ ~Launch
    /\ dbLock' = "free"
    /\ samplerPc' = "loop"
    /\ net' = NoneVal
    /\ current_ssid' = NoneVal
    /\ date' = <<>>
    /\ time' = <<>>
    /\ result' = "None"
    /\ again' = FALSE
    /\ slept' = 0
    /\ uiPc' = "idle"
    /\ logs' = <<>>
    /\ uiResult' = NoResult
    /\ UNCHANGED <<connections, history>>

Next == SamplerNext \/ UiNext \/ Relaunch

Spec == Init /\ [][Next]_vars

\* ------------------------------------- the statement over every time of day
\* the text of every minute of the day, as insert_connection formats it
AllTimes == [m \in 0..(24 * 60 - 1) |-> FormatTime([hour |-> m \div 60, minute |-> m % 60])]

\* a tick at any minute of the first sample day is about to run its
\* statement, over the record the tick of the first sample instant created
TimeInit ==
    LET day == FormatDate(SampleInstants[1])
        t == FormatTime(SampleInstants[1])
    IN
    /\ connections = {[date |-> day, earliest |-> t, latest |-> t]}
    /\ applied = [d \in DateTexts |-> IF d = day THEN {t} ELSE {}]
    /\ matched = {day}
    /\ dbLock = "sampler"
    /\ samplerPc = "execute"
    /\ net = Some(target_ssid)
    /\ current_ssid = Some(target_ssid)
    /\ date = day
    /\ time \in {AllTimes[m] : m \in DOMAIN AllTimes}
    /\ result = "None"
    /\ again = FALSE
    /\ slept = 0
    /\ uiPc = "idle"
    /\ logs = <<>>
    /\ uiResult = NoResult

TimeNext == ExecuteOk

TimeSpec == TimeInit /\ [][TimeNext]_vars

\* the OS scheduler runs the background thread whenever it can take a step
FairSpec == Spec /\ WF_vars(SamplerNext)

\* the steps of a get_connections call that has taken the lock
UiRun ==
    \/ PrepareOk
    \/ PrepareErr
    \/ CollectRow
    \/ CollectErr
    \/ CollectDone
    \/ GetConnectionsReturn

\* both threads are scheduled: the background thread whenever it can step,
\* the caller of get_connections until the call it started has returned
LockFairSpec == Spec /\ WF_vars(SamplerNext) /\ WF_vars(UiRun)

\* --------------------------------------------------------------- vocabulary
\* the minute of the day a stored time text stands for
MinuteOfText(t) ==
    LET n == CHOOSE n \in Clock : FormatTime(n) = t
    IN n.hour * 60 + n.minute

\* the calendar day a stored date text stands for, as a number yyyymmdd
DayOfText(t) ==
    LET n == CHOOSE n \in Clock : FormatDate(n) = t
    IN n.year * 10000 + n.month * 100 + n.day

\* the text among S of the chronologically first / last minute
EarliestOf(S) == CHOOSE t \in S : \A u \in S : MinuteOfText(t) <= MinuteOfText(u)

LatestOf(S) == CHOOSE t \in S : \A u \in S : MinuteOfText(u) <= MinuteOfText(t)

\* the background thread is inside insert_connection
InInsert == samplerPc \in {"now", "lock", "execute", "return"}

\* ------------------------------------------------------------------- claims
\* C1: after any sequence of successful upserts on a date, in any arrival
\* order, the record of that date has earliest = the minimum and latest = the
\* maximum of the applied times; a single upsert gives earliest = latest = t1.
C1_EarliestLatestAreMinMax ==
    /\ \A r \in connections :
          /\ applied[r.date] # {}
          /\ r.earliest = EarliestOf(applied[r.date])
          /\ r.latest = LatestOf(applied[r.date])
    /\ \A d \in DateTexts :
          applied[d] # {} => \E r \in connections : r.date = d

\* a time strictly between the two others has just been applied last
C1_Witness ==
    /\ samplerPc = "return"
    /\ result = "Ok"
    /\ ~again
    /\ \E r \in connections :
          /\ r.date = date
          /\ Cardinality(applied[date]) >= 3
          /\ MinuteOfText(r.earliest) < MinuteOfText(time)
          /\ MinuteOfText(time) < MinuteOfText(r.latest)

\* C2: in every reachable state each record has earliest <= latest and no two
\* records have the same date.
C2_RecordInvariant ==
    /\ \A r \in connections : TextLeq(r.earliest, r.latest)
    /\ \A r1, r2 \in connections : r1.date = r2.date => r1 = r2

\* every day has a record, one of them widened, while a list() failed
C2_Witness ==
    /\ Cardinality(connections) = Cardinality(DateTexts)
    /\ \E r \in connections : TextLess(r.earliest, r.latest)
    /\ uiResult.kind = "Err"

\* C3: a failed OS query (command cannot run, non-zero exit, no network) makes
\* the tick skip the store and go on to the next tick; the loop never ends.
C3_FailedQuerySkipsTick ==
    /\ samplerPc # "panicked"
    /\ ~current_ssid.some => ~InInsert

\* C4: a failed upsert is handed to the loop as Err, leaves the table as it
\* was, does not end the loop, and the next tick runs the OS query again.
C4_FailedUpsertContinues ==
    /\ [][/\ (samplerPc = "execute" /\ result' = "Err")
                => (connections' = connections /\ samplerPc' = "return")
          /\ result = "Err"
                => /\ connections' = connections
                   /\ \/ samplerPc' = samplerPc
                      \/ samplerPc = "return" /\ samplerPc' = "report"
                      \/ samplerPc = "report" /\ samplerPc' = "sleep"
                      \/ samplerPc' = "loop"
          /\ (samplerPc = "loop" /\ samplerPc' # "loop") => samplerPc' = "query"]_vars
    /\ (result = "Err") ~> (samplerPc = "query")

\* the loop has received Err from check_wifi_connection
C4_Witness == samplerPc = "report" /\ result = "Err"

C6_InsertOnlyOnExactTarget == InInsert => net = Some(target_ssid)

\* C7: the background thread holds the lock only while it runs the statement,
\* never during the OS query or the sleep; the reader only during one read.
C7_LockOnlyAroundOneOperation ==
    /\ dbLock = "sampler" => samplerPc \in {"execute", "return"}
    /\ dbLock = "ui" => uiPc \in {"prepare", "rows", "drop"}

\* a tick that ran the statement is sleeping, and the lock is free
C7_Witness ==
    /\ samplerPc = "sleep"
    /\ result = "Ok"
    /\ date # <<>>
    /\ dbLock = "free"

\* C8: what list() has read, and what it returns, is the table as it is at
\* one instant between two upserts: every row read is a whole row of the
\* table, and the returned rows are exactly the rows of the table.
C8_ListSeesWholeUpserts ==
    /\ uiPc = "rows" =>
          /\ \A i \in 1..Len(logs) : logs[i] \in connections
          /\ \A i, j \in 1..Len(logs) : i < j => TextLess(logs[j].date, logs[i].date)
          /\ \A r \in Remaining(connections, logs) :
                \A i \in 1..Len(logs) : TextLess(r.date, logs[i].date)
    /\ uiResult.kind = "Ok" =>
          /\ {uiResult.rows[i] : i \in 1..Len(uiResult.rows)} = connections
          /\ \A i \in 1..Len(uiResult.rows) :
                /\ uiResult.rows[i].earliest \in TimeTexts
                /\ uiResult.rows[i].latest \in TimeTexts

\* list() returns a widened record while the sampler waits with an upsert
C8_Witness ==
    /\ uiResult.kind = "Ok"
    /\ \E i \in 1..Len(uiResult.rows) :
          TextLess(uiResult.rows[i].earliest, uiResult.rows[i].latest)
    /\ samplerPc = "lock"

\* C9: list() returns every record of the table, most recent day first,
\* strictly descending by date, no date twice.
C9_ListSortedDescending ==
    uiResult.kind = "Ok" =>
        /\ {uiResult.rows[i] : i \in 1..Len(uiResult.rows)} = connections
        /\ \A i, j \in 1..Len(uiResult.rows) :
              i < j => /\ DayOfText(uiResult.rows[j].date) < DayOfText(uiResult.rows[i].date)
                       /\ TextLess(uiResult.rows[j].date, uiResult.rows[i].date)

\* list() returned a record for every day the clock can show
C9_Witness == uiResult.kind = "Ok" /\ Len(uiResult.rows) = Cardinality(DateTexts)

\* C10: applying a (date, time) pair that was applied before leaves every
\* record of the table unchanged.
C10_RepeatedUpsertIdempotent ==
    [][(samplerPc = "execute" /\ result' = "Ok" /\ time \in applied[date])
          => connections' = connections]_vars

\* a pair has been applied a second time, after another time of that day
C10_Witness ==
    /\ samplerPc = "return"
    /\ result = "Ok"
    /\ again
    /\ Cardinality(applied[date]) >= 2

\* C11: across every step, a record that exists keeps existing, its earliest
\* never becomes later and its latest never becomes earlier.
C11_RecordsOnlyWiden ==
    [][\/ connections' = connections
       \/ \A r \in connections :
             \E q \in connections' :
                /\ q.date = r.date
                /\ MinuteOfText(q.earliest) <= MinuteOfText(r.earliest)
                /\ MinuteOfText(r.latest) <= MinuteOfText(q.latest)]_vars

\* a record of several times has just been widened downwards by this tick
C11_Witness ==
    /\ samplerPc = "return"
    /\ result = "Ok"
    /\ ~again
    /\ \E r \in connections :
          /\ r.date = date
          /\ r.earliest = time
          /\ Cardinality(applied[date]) >= 3

\* C12: a tick runs the OS query once and attempts the statement at most
\* once, and every tick, however it went, is followed by the same sleep of
\* SleepSecs seconds before the next tick.
C12_OneAttemptThenFixedSleep ==
    [][/\ (samplerPc' = "query" /\ samplerPc # "query") => samplerPc = "loop"
       /\ (samplerPc' = "execute" /\ samplerPc # "execute") => samplerPc = "lock"
       /\ samplerPc = "execute" => samplerPc' \in {"execute", "return", "loop"}
       /\ (samplerPc' = "loop" /\ samplerPc # "loop")
             => \/ samplerPc = "sleep" /\ slept' = SleepSecs
                \/ slept' = 0
       /\ samplerPc' # "panicked"]_vars

\* C13: a storage error in list() or in the upsert reaches the caller as Err,
\* never as a crash nor as an Ok value that lacks rows, and the table is the
\* same after the failed operation as before it.
C13_StorageErrorsAreReturned ==
    [][/\ (uiPc' = "drop" /\ uiPc # "drop")
             => /\ connections' = connections
                /\ \/ uiResult'.kind = "Err"
                   \/ /\ uiResult'.kind = "Ok"
                      /\ {uiResult'.rows[i] : i \in 1..Len(uiResult'.rows)} = connections
       /\ uiPc \in {"prepare", "rows"} => uiPc' # "panicked"
       /\ samplerPc = "execute" => samplerPc' # "panicked"
       /\ (samplerPc = "execute" /\ samplerPc' = "return")
             => \/ result' = "Err" /\ connections' = connections
                \/ result' = "Ok" /\ connections' = Upsert(connections, date, time)]_vars

\* a failed read and a failed statement, over a table that holds records
C13_Witness ==
    /\ uiResult.kind = "Err"
    /\ result = "Err"
    /\ connections # {}

\* the minute of the day a time text of AllTimes stands for
MinuteOfTime(t) == CHOOSE m \in DOMAIN AllTimes : AllTimes[m] = t

\* C14: for every pair of zero-padded HH:MM times of a day the byte-wise text
\* order used by MIN/MAX is the chronological order, so the statement stores
\* the chronologically first and last sample.
C14_TextOrderIsTimeOrder ==
    /\ samplerPc = "execute" =>
          \A a \in {MinuteOfTime(time)} :
             \A m \in DOMAIN AllTimes : TextLess(time, AllTimes[m]) <=> a < m
    /\ samplerPc = "return" =>
          \A r \in connections :
             LET ms == {MinuteOfTime(t) : t \in applied[r.date]} IN
             /\ r.earliest = AllTimes[CHOOSE m \in ms : \A k \in ms : m <= k]
             /\ r.latest = AllTimes[CHOOSE m \in ms : \A k \in ms : k <= m]

\* 10:00 was applied after 08:07: "8" against "1" without the padding
C14_Witness ==
    /\ samplerPc = "return"
    /\ time = <<"1", "0", ":", "0", "0">>
    /\ \E r \in connections :
          /\ r.earliest = <<"0", "8", ":", "0", "7">>
          /\ r.latest = time

\* C15: every acquisition of the lock, by insert_connection or by
\* get_connections, is followed by its release, whether the operation
\* succeeded or failed; no thread panics while it holds the lock, so the
\* mutex is never poisoned and no lock().unwrap() fails.
C15_LockAlwaysReleased ==
    /\ [](dbLock # "poisoned" /\ uiPc # "panicked")
    /\ [][samplerPc' = "panicked" => dbLock # "sampler"]_vars
    /\ (dbLock # "free") ~> (dbLock = "free")

\* the background thread has panicked, and get_connections still locks and reads
C15_Witness ==
    /\ samplerPc = "panicked"
    /\ uiPc = "drop"
    /\ uiResult.kind = "Ok"
    /\ connections # {}

\* C16: when a tick saw the target network and its statement succeeded, then
\* to the end of that tick the table has a record of the date the tick read,
\* with earliest <= the time the tick read <= latest, and the statement left
\* the records of all other dates as they were.
C16_MatchedTickRecordsItsTime ==
    /\ []((/\ samplerPc \in {"return", "report", "sleep"}
           /\ SsidMatches(current_ssid)
           /\ result = "Ok")
             => \E r \in connections :
                   /\ r.date = date
                   /\ MinuteOfText(r.earliest) <= MinuteOfText(time)
                   /\ MinuteOfText(time) <= MinuteOfText(r.latest))
    /\ [][(samplerPc = "execute" /\ result' = "Ok")
             => {r \in connections' : r.date # date}
                   = {r \in connections : r.date # date}]_vars

\* a successful matching tick is at its end, over a table with other days
C16_Witness ==
    /\ samplerPc = "sleep"
    /\ SsidMatches(current_ssid)
    /\ result = "Ok"
    /\ \E r \in connections : r.date = date /\ TextLess(r.earliest, r.latest)
    /\ \E r \in connections : r.date # date

\* C17: a get_connections call, and a tick in which no network or a network
\* other than the target is associated, leave every record of the table
\* unchanged: the table changes only in a step of the background thread
\* whose associated network is the target.
C17_ReadsAndOtherNetworksChangeNothing ==
    [][connections' # connections
          => /\ uiVars' = uiVars
             /\ net = Some(target_ssid)]_vars

====
